---- MODULE Spec2Model ----
(***************************************************************************)
(* Model of the Solar Alt Service (src/main.py): the /solar/estimate       *)
(* handler with its sizing arithmetic and its two provider calls, and the  *)
(* pure helpers utm_crs_for_lon, fetch_power_irradiance.annual and the     *)
(* payload parsing of pvgis_energy.                                        *)
(*                                                                         *)
(* Numbers.  Python floats are modelled by exact integers on fixed grids:  *)
(*   angles and coordinates   whole degrees                                *)
(*   areas                    1/1000 m2                                    *)
(*   packing ratio            1/100                                        *)
(*   power                    watts (system_kw * 1000)                     *)
(*   losses                   whole percent                                *)
(*   energies, irradiance     1/100 kWh                                    *)
(* so a quotient is the exact rational quotient, not its binary rounding.  *)
(***************************************************************************)
EXTENDS Integers, Sequences, FiniteSets, TLC

VARIABLES pc, body, req, sized, calls, irr, yield, resp, arg, ret

vars == <<pc, body, req, sized, calls, irr, yield, resp, arg, ret>>

(***************************************************************************)
(* Python / JSON values: every value is a record [t, v].                   *)
(***************************************************************************)
None == [t |-> "None", v |-> 0]

Omitted == [t |-> "omitted", v |-> 0]

Num(n) == [t |-> "num", v |-> n]

Str(s) == [t |-> "str", v |-> s]

Dict(f) == [t |-> "dict", v |-> f]

List(s) == [t |-> "list", v |-> s]

Exc(name) == [t |-> "exc", v |-> name]

EmptyDict == Dict([k \in {} |-> None])

EmptyList == List(<<>>)

IsExc(x) == x.t = "exc"

\* isinstance(v, (int, float))
IsNumber(x) == x.t = "num"

\* bool(x): None, 0, "", {} and [] are falsy
Truthy(x) ==
    CASE x.t = "None" -> FALSE
      [] x.t = "num"  -> x.v # 0
      [] x.t = "str"  -> x.v # ""
      [] x.t = "dict" -> DOMAIN x.v # {}
      [] x.t = "list" -> Len(x.v) # 0
      [] OTHER        -> TRUE

\* x or d
Or(x, d) == IF Truthy(x) THEN x ELSE d

\* x[k] with a string key k
Subscript(x, k) ==
    CASE x.t = "exc"  -> x
      [] x.t = "dict" -> IF k \in DOMAIN x.v THEN x.v[k] ELSE Exc("KeyError")
      [] OTHER        -> Exc("TypeError")

\* x.get(k, d)
Get(x, k, d) ==
    CASE x.t = "exc"  -> x
      [] x.t = "dict" -> IF k \in DOMAIN x.v THEN x.v[k] ELSE d
      [] OTHER        -> Exc("AttributeError")

\* v * n for an int n >= 1: numbers multiply, strings and lists repeat
Mul(x, n) ==
    CASE x.t = "num"  -> Num(x.v * n)
      [] x.t = "str"  -> x
      [] x.t = "list" -> x
      [] OTHER        -> Exc("TypeError")

RECURSIVE SumSeq(_)
SumSeq(s) == IF s = <<>> THEN 0 ELSE Head(s) + SumSeq(Tail(s))

\* sum(vals) over a list of values: 0 + v fails unless v is a number
PySum(vals) ==
    IF \E i \in 1..Len(vals) : ~IsNumber(vals[i])
    THEN Exc("TypeError")
    ELSE Num(SumSeq([i \in 1..Len(vals) |-> vals[i].v]))

\* floor(n / d) for d > 0
FloorDiv(n, d) == n \div d

\* round(n / d) for n >= 0, d > 0: to nearest, ties to even
RoundHalfEven(n, d) ==
    LET q == n \div d
        r == n % d
    IN  CASE 2 * r < d -> q
          [] 2 * r > d -> q + 1
          [] OTHER     -> IF q % 2 = 0 THEN q ELSE q + 1

(***************************************************************************)
(* Helpers of src/main.py                                                  *)
(***************************************************************************)

\* utm_crs_for_lon: the CRS is identified by its EPSG code
utm_crs_for_lon(lon, lat) ==
    LET zone  == FloorDiv(lon + 180, 6) + 1
        south == lat < 0
    IN  [zone |-> zone, south |-> south,
         epsg |-> IF south THEN 32700 + zone ELSE 32600 + zone]

\* polygon_area_m2: a polygon is given by its centroid and by the area that
\* shapely measures once pyproj has projected it into crs_utm
polygon_area_m2(poly) ==
    LET crs_utm == utm_crs_for_lon(poly.centroid_x, poly.centroid_y)
    IN  [crs_utm |-> crs_utm, area |-> poly.area]

default_tilt(lat) == 10

default_azimuth(lat) == 180

\* the day counts of a leap year
days_leap_year == <<31, 29, 31, 30, 31, 30, 31, 31, 30, 31, 30, 31>>

days == <<31, 28, 31, 30, 31, 30, 31, 31, 30, 31, 30, 31>>

MONTHS == <<"JAN", "FEB", "MAR", "APR", "MAY", "JUN",
            "JUL", "AUG", "SEP", "OCT", "NOV", "DEC">>

\* str(i) for i in range(1, 13)
MonthIndex == <<"1", "2", "3", "4", "5", "6", "7", "8", "9", "10", "11", "12">>

\* fetch_power_irradiance.annual(param_key) over the decoded params
annual(params, param_key) ==
    LET monthly == Get(params, param_key, EmptyDict)
    IN  IF IsExc(monthly) THEN monthly
        ELSE IF ~Truthy(monthly) THEN None
        ELSE IF monthly.t # "dict" THEN Exc("AttributeError")
        ELSE
          LET got  == [i \in 1..12 |-> Get(monthly, MONTHS[i], None)]
              idx  == SelectSeq([i \in 1..12 |-> i], LAMBDA i : got[i].t # "None")
              vals == [j \in 1..Len(idx) |-> Mul(got[idx[j]], days[idx[j]])]
          IN  IF \E j \in 1..Len(vals) : IsExc(vals[j]) THEN Exc("TypeError")
              ELSE IF Len(vals) = 0 THEN None
              ELSE PySum(vals)

\* fetch_power_irradiance after a 200 response whose body decodes to data
power_irradiance(data) ==
    LET params == Get(Get(data, "properties", EmptyDict), "parameter", EmptyDict)
        ghi == annual(params, "ALLSKY_SFC_SW_DWN")
        dni == annual(params, "DNI")
        dhi == annual(params, "DHI")
    IN  IF IsExc(params) THEN params
        ELSE IF IsExc(ghi) THEN ghi
        ELSE IF IsExc(dni) THEN dni
        ELSE IF IsExc(dhi) THEN dhi
        ELSE Dict([k \in {"GHI_kWh_m2_yr", "DNI_kWh_m2_yr", "DHI_kWh_m2_yr"} |->
                     CASE k = "GHI_kWh_m2_yr" -> ghi
                       [] k = "DNI_kWh_m2_yr" -> dni
                       [] OTHER               -> dhi])

\* pvgis_energy, the try block: data["outputs"]["monthly"]["fixed"]["E_d"][str(i)].get("E_m", None)
monthly_keyed(data) ==
    LET E_d == Subscript(Subscript(Subscript(Subscript(data, "outputs"), "monthly"), "fixed"), "E_d")
    IN  [i \in 1..12 |-> Get(Subscript(E_d, MonthIndex[i]), "E_m", None)]

\* pvgis_energy, the except block: the array format, else [None]*12
monthly_fallback(data) ==
    LET monthly_list == Get(Get(Get(data, "outputs", EmptyDict), "monthly", EmptyDict),
                            "fixed", EmptyList)
    IN  IF IsExc(monthly_list) THEN monthly_list
        ELSE IF monthly_list.t = "list"
        THEN LET ms == [i \in 1..Len(monthly_list.v) |-> Get(monthly_list.v[i], "E_m", None)]
             IN  IF \E i \in 1..Len(ms) : IsExc(ms[i]) THEN Exc("AttributeError") ELSE List(ms)
        ELSE List([i \in 1..12 |-> None])

\* the annual figure always recomputed from the months, E_y ignored
annual_energy_always_summed(data, monthly) ==
    LET nums == SelectSeq(monthly, IsNumber)
    IN  Num(SumSeq([i \in 1..Len(nums) |-> nums[i].v]))

\* pvgis_energy: the annual figure taken from the payload, else the sum of the numeric months
annual_energy(data, monthly) ==
    LET E_y == Subscript(Subscript(Subscript(Subscript(data, "outputs"), "totals"), "fixed"), "E_y")
        nums == SelectSeq(monthly, IsNumber)
    IN  IF IsExc(E_y) THEN Num(SumSeq([i \in 1..Len(nums) |-> nums[i].v])) ELSE E_y

\* pvgis_energy after a 200 response whose body decodes to data:
\* [monthly, annual] as returned, or the exception that escapes
pvgis_energy(data) ==
    LET keyed   == monthly_keyed(data)
        monthly == IF \E i \in 1..12 : IsExc(keyed[i]) THEN monthly_fallback(data) ELSE List(keyed)
    IN  IF IsExc(monthly) THEN monthly
        ELSE
          LET ann    == annual_energy(data, monthly.v)
              filled == [i \in 1..Len(monthly.v) |->
                           IF IsNumber(monthly.v[i]) THEN monthly.v[i].v ELSE 0]
          IN  [t |-> "ok",
               v |-> [monthly |-> filled,
                      annual  |-> IF IsNumber(ann) THEN ann.v ELSE SumSeq(filled)]]

(***************************************************************************)
(* The request model and the /solar/estimate handler                       *)
(***************************************************************************)

\* a pydantic field: the default when the caller's body omits the key
Field(x, default) == IF x.t = "omitted" THEN default ELSE x

\* Optional[...] = Field(ge=lo, le=hi): None passes, a number must be in range
Between(x, lo, hi) == x.t = "None" \/ (x.t = "num" /\ lo <= x.v /\ x.v <= hi)

\* Optional[...] = Field(gt=0): None passes, a number must be positive
Positive(x) == x.t = "None" \/ (x.t = "num" /\ x.v > 0)

\* EstimateRequest: the parsed model, defaults filled in
EstimateRequest(b) ==
    [lat            |-> b.lat,
     lon            |-> b.lon,
     polygon        |-> Field(b.polygon, None),
     tilt_deg       |-> Field(b.tilt_deg, None),
     azimuth_deg    |-> Field(b.azimuth_deg, None),
     system_kw      |-> Field(b.system_kw, None),
     panel_watts    |-> Field(b.panel_watts, Num(400)),
     panel_area_m2  |-> Field(b.panel_area_m2, Num(1950)),
     packing_ratio  |-> Field(b.packing_ratio, Num(85)),
     losses_percent |-> Field(b.losses_percent, Num(14))]

\* EstimateRequest: the constraints pydantic enforces (lat and lon: any float)
RequestValid(r) ==
    /\ IsNumber(r.lat)
    /\ IsNumber(r.lon)
    /\ r.polygon.t \in {"None", "polygon"}
    /\ Between(r.tilt_deg, 0, 90)
    /\ Between(r.azimuth_deg, 0, 360)
    /\ Positive(r.system_kw)
    /\ Positive(r.panel_watts)
    /\ Positive(r.panel_area_m2)
    /\ Positive(r.packing_ratio) /\ Between(r.packing_ratio, 1, 100)
    /\ Between(r.losses_percent, 0, 40)

\* estimate, lines 117-154: effective parameters, roof segment, panel count, system size
sizing(r) ==
    LET lat  == r.lat.v
        tilt == IF r.tilt_deg.t # "None" THEN r.tilt_deg.v ELSE default_tilt(lat)
        az   == IF r.azimuth_deg.t # "None" THEN r.azimuth_deg.v ELSE default_azimuth(lat)
        panel_watts == Or(r.panel_watts, Num(400)).v
        panel_area  == Or(r.panel_area_m2, Num(1950)).v
        pack        == Or(r.packing_ratio, Num(85)).v
        has_polygon == r.polygon.t # "None"
        total_area  == IF has_polygon THEN Num(polygon_area_m2(r.polygon.v).area) ELSE None
        segments    == IF has_polygon
                       THEN <<[id |-> "seg_0",
                               area_m2 |-> RoundHalfEven(total_area.v, 10),
                               tilt_deg |-> tilt, azimuth_deg |-> az]>>
                       ELSE <<>>
        max_panels  == IF Truthy(total_area)
                       THEN Num(FloorDiv(total_area.v * pack, 100 * panel_area))
                       ELSE None
        user        == Truthy(r.system_kw)
        by_area     == ~user /\ Truthy(max_panels)
        system_kw   == IF user THEN r.system_kw.v
                       ELSE IF by_area THEN max_panels.v * panel_watts
                       ELSE 3000
        rec_panels  == IF by_area THEN max_panels.v ELSE RoundHalfEven(system_kw, panel_watts)
    IN  [tilt |-> tilt, az |-> az, panel_watts |-> panel_watts, panel_area |-> panel_area,
         pack |-> pack, segments |-> segments, total_area |-> total_area,
         max_panels |-> max_panels, rec_panels |-> rec_panels, system_kw |-> system_kw]

\* the losses argument of the pvgis_energy call and of the assumptions: req.losses_percent or 14.0
effective_losses(r) == Or(r.losses_percent, Num(14)).v

\* pvgis_energy: aspect = 180.0 - azimuth_deg
aspect_of(azimuth_deg) == 180 - azimuth_deg

\* the GET that fetch_power_irradiance sends
power_call(lat, lon) == [provider |-> "NASA POWER", lat |-> lat, lon |-> lon]

\* the GET that pvgis_energy sends
pvgis_call(lat, lon, tilt_deg, azimuth_deg, peak_kw, losses_percent) ==
    [provider |-> "PVGIS", lat |-> lat, lon |-> lon, peakpower |-> peak_kw,
     loss |-> losses_percent, angle |-> tilt_deg, aspect |-> aspect_of(azimuth_deg)]

\* raise HTTPException(status_code=502, ...)
UpstreamError(provider, status) ==
    [kind |-> "error", status |-> 502, detail |-> <<provider, status>>]

\* an exception other than HTTPException leaving the handler: a 500 from the framework
ServerError(e) == [kind |-> "error", status |-> 500, detail |-> <<e.v, 0>>]

\* pydantic's rejection of the body: 422 from the framework
ValidationError == [kind |-> "error", status |-> 422, detail |-> <<"validation", 0>>]

NoResp == [kind |-> "none", status |-> 0, detail |-> <<"", 0>>]

\* estimate, lines 160-187: the response body (annualKwh and monthlyKwh in 1/10 kWh
\* after round(v, 1); round(system_kw, 3) leaves whole watts unchanged)
response(r, s, i, y) ==
    [kind |-> "ok", status |-> 200,
     solarPotential |->
       [panelCapacityWatts    |-> s.panel_watts,
        maxArrayPanelsCount   |-> IF s.max_panels.t # "None" THEN s.max_panels
                                  ELSE Num(s.rec_panels),
        recommendedPanelCount |-> s.rec_panels,
        capacityKw            |-> s.system_kw,
        annualKwh             |-> RoundHalfEven(y.annual, 10),
        monthlyKwh            |-> [k \in 1..Len(y.monthly) |->
                                     RoundHalfEven(y.monthly[k], 10)],
        roofSegments          |-> s.segments,
        irradianceStats       |-> i,
        assumptions |->
          [panel_area_m2  |-> s.panel_area,
           packing_ratio  |-> s.pack,
           tilt_deg       |-> s.tilt,
           azimuth_deg    |-> s.az,
           losses_percent |-> effective_losses(r)],
        dataSources |-> <<"NASA POWER Climatology", "PVGIS v5_2 PVcalc">>]]

(***************************************************************************)
(* Inputs: request bodies and provider payloads                            *)
(***************************************************************************)

\* the dict with the keys of f whose value is not Omitted
MkDict(f) == Dict([k \in {x \in DOMAIN f : f[x].t # "omitted"} |-> f[k]])

\* months beyond the varied head all take the value fill
HeadFill(head, fill, n) == [i \in 1..n |-> IF i <= Len(head) THEN head[i] ELSE fill]

\* number of leading months that vary independently in a generated payload
MaxVaried == 2

Heads(kinds) == [1..MaxVaried -> kinds]

Poly(area) == [t |-> "polygon", v |-> [centroid_x |-> 10, centroid_y |-> 45, area |-> area]]

\* <<lat, lon>>: inside the valid range and on its edge
Coords == {<<45, 10>>, <<-10, 180>>, <<-90, -180>>}

\* roof outlines: none, 2 m2 (no panel fits), 100 m2, 100.005 m2
Polygons == {Omitted, Poly(2000), Poly(100000), Poly(100005)}

ValidBodies ==
    {[lat |-> Num(c[1]), lon |-> Num(c[2]), polygon |-> p, tilt_deg |-> t,
      azimuth_deg |-> a, system_kw |-> k, panel_watts |-> w, panel_area_m2 |-> pa,
      packing_ratio |-> pr, losses_percent |-> l] :
        c \in Coords, p \in Polygons, t \in {Omitted, Num(0)}, a \in {Omitted, Num(90)},
        k \in {Omitted, Num(5000)}, w \in {Omitted, Num(300)}, pa \in {Omitted, Num(2000)},
        pr \in {None, Num(50)}, l \in {Omitted, None, Num(0), Num(20)}}

BaseBody ==
    [lat |-> Num(45), lon |-> Num(10), polygon |-> Omitted, tilt_deg |-> Omitted,
     azimuth_deg |-> Omitted, system_kw |-> Omitted, panel_watts |-> Omitted,
     panel_area_m2 |-> Omitted, packing_ratio |-> Omitted, losses_percent |-> Omitted]

\* bodies whose latitude or longitude is out of range, with and without a polygon
OutOfRangeBodies ==
    {[BaseBody EXCEPT !.lat = Num(c[1]), !.lon = Num(c[2]), !.polygon = p] :
        c \in {<<91, 0>>, <<-91, 10>>, <<45, 181>>, <<-10, 540>>},
        p \in {Omitted, Poly(100000)}}

\* bodies that violate one Field constraint each
InvalidBodies ==
    {[BaseBody EXCEPT !.tilt_deg = Num(91)],
     [BaseBody EXCEPT !.azimuth_deg = Num(361)],
     [BaseBody EXCEPT !.system_kw = Num(0)],
     [BaseBody EXCEPT !.panel_watts = Num(0)],
     [BaseBody EXCEPT !.packing_ratio = Num(101)],
     [BaseBody EXCEPT !.losses_percent = Num(41)],
     [BaseBody EXCEPT !.lat = Str("north")]}

\* a NASA POWER payload with the monthly mapping `monthly` in every channel
PowerData(monthly) ==
    Dict("properties" :> Dict("parameter" :>
        Dict([k \in {"ALLSKY_SFC_SW_DWN", "DNI", "DHI"} |-> monthly])))

\* a monthly mapping: month code -> value, Omitted months left out
MonthlyMap(vals) == MkDict([m \in {MONTHS[i] : i \in 1..12} |->
                              vals[CHOOSE i \in 1..12 : MONTHS[i] = m]])

\* a PVGIS payload: outputs.monthly.fixed = fixed, outputs.totals.fixed.E_y = E_y
PvgisData(fixed, E_y) ==
    Dict("outputs" :>
        Dict(("monthly" :> MkDict("fixed" :> fixed)) @@
             ("totals" :> Dict("fixed" :> MkDict("E_y" :> E_y)))))

\* outputs.monthly.fixed keyed by month: {"E_d": {"1": entry, ...}}
KeyedFixed(entries) ==
    Dict("E_d" :> MkDict([m \in {MonthIndex[i] : i \in 1..12} |->
                            entries[CHOOSE i \in 1..12 : MonthIndex[i] = m]]))

Entry(E_m) == MkDict("E_m" :> E_m)

PowerReplies ==
    {[status_code |-> 200, json |-> PowerData(MonthlyMap([i \in 1..12 |-> Num(500)]))],
     [status_code |-> 200, json |-> PowerData(MonthlyMap([i \in 1..12 |-> Str("n/a")]))],
     [status_code |-> 200, json |-> EmptyDict],
     [status_code |-> 500, json |-> EmptyDict]}

PvgisReplies ==
    {[status_code |-> 200,
      json |-> PvgisData(List([i \in 1..12 |-> Entry(Num(12345))]), Num(148140))],
     [status_code |-> 200,
      json |-> PvgisData(KeyedFixed([i \in 1..12 |-> Entry(Num(12345))]), Omitted)],
     [status_code |-> 200, json |-> PvgisData(List(<<Str("n/a")>>), Omitted)],
     [status_code |-> 200, json |-> EmptyDict],
     [status_code |-> 503, json |-> EmptyDict]}

(***************************************************************************)
(* The handler as a state machine                                          *)
(***************************************************************************)

Idle == [t |-> "idle", v |-> 0]

Init ==
    /\ pc = "received"
    /\ body \in ValidBodies \cup OutOfRangeBodies \cup InvalidBodies
    /\ req = None
    /\ sized = None
    /\ calls = <<>>
    /\ irr = None
    /\ yield = None
    /\ resp = NoResp
    /\ arg = Idle
    /\ ret = Idle

\* FastAPI parses the body into EstimateRequest before estimate runs
Validate ==
    /\ pc = "received"
    /\ LET r == EstimateRequest(body)
       IN  IF RequestValid(r)
           THEN /\ req' = r
                /\ pc' = "estimate"
                /\ resp' = resp
           ELSE /\ req' = req
                /\ pc' = "rejected"
                /\ resp' = ValidationError
    /\ UNCHANGED <<body, sized, calls, irr, yield, arg, ret>>

\* estimate, lines 117-154
Size ==
    /\ pc = "estimate"
    /\ sized' = sizing(req)
    /\ pc' = "fetch_power_irradiance"
    /\ UNCHANGED <<body, req, calls, irr, yield, resp, arg, ret>>

\* fetch_power_irradiance without its status check: a non-200 body is decoded and used
FetchPowerIrradiance_unchecked ==
    /\ pc = "fetch_power_irradiance"
    /\ \E r \in PowerReplies :
         LET out == power_irradiance(r.json)
         IN  /\ calls' = Append(calls, [request |-> power_call(req.lat.v, req.lon.v),
                                        status_code |-> r.status_code])
             /\ IF IsExc(out)
                THEN /\ resp' = ServerError(out)
                     /\ pc' = "failed"
                     /\ irr' = irr
                ELSE /\ resp' = resp
                     /\ pc' = "pvgis_energy"
                     /\ irr' = out
    /\ UNCHANGED <<body, req, sized, yield, arg, ret>>

\* estimate, line 157: irr = fetch_power_irradiance(lat, lon)
FetchPowerIrradiance ==
    /\ pc = "fetch_power_irradiance"
    /\ \E r \in PowerReplies :
         LET out == power_irradiance(r.json)
         IN  /\ calls' = Append(calls, [request |-> power_call(req.lat.v, req.lon.v),
                                        status_code |-> r.status_code])
             /\ IF r.status_code # 200
                THEN /\ resp' = UpstreamError("NASA POWER", r.status_code)
                     /\ pc' = "failed"
                     /\ irr' = irr
                ELSE IF IsExc(out)
                THEN /\ resp' = ServerError(out)
                     /\ pc' = "failed"
                     /\ irr' = irr
                ELSE /\ resp' = resp
                     /\ pc' = "pvgis_energy"
                     /\ irr' = out
    /\ UNCHANGED <<body, req, sized, yield, arg, ret>>

\* estimate, line 158: monthly_kwh, annual_kwh, _ = pvgis_energy(...)
PvgisEnergy ==
    /\ pc = "pvgis_energy"
    /\ \E r \in PvgisReplies :
         LET out == pvgis_energy(r.json)
         IN  /\ calls' = Append(calls,
                   [request |-> pvgis_call(req.lat.v, req.lon.v, sized.tilt, sized.az,
                                           sized.system_kw, effective_losses(req)),
                    status_code |-> r.status_code])
             /\ IF r.status_code # 200
                THEN /\ resp' = UpstreamError("PVGIS", r.status_code)
                     /\ pc' = "failed"
                     /\ yield' = yield
                ELSE IF IsExc(out)
                THEN /\ resp' = ServerError(out)
                     /\ pc' = "failed"
                     /\ yield' = yield
                ELSE /\ resp' = resp
                     /\ pc' = "respond"
                     /\ yield' = out
    /\ UNCHANGED <<body, req, sized, irr, arg, ret>>

\* estimate, lines 160-187
Respond ==
    /\ pc = "respond"
    /\ resp' = response(req, sized, irr, yield.v)
    /\ pc' = "done"
    /\ UNCHANGED <<body, req, sized, calls, irr, yield, arg, ret>>

Next == Validate \/ Size \/ FetchPowerIrradiance \/ PvgisEnergy \/ Respond

Spec == Init /\ [][Next]_vars

(***************************************************************************)
(* utm_crs_for_lon on its own                                              *)
(***************************************************************************)

ZoneArgs ==
    {[fn |-> "utm_crs_for_lon", lon |-> x, lat |-> y] :
        x \in -180..180, y \in {-90, -1, 0, 1, 90}}

InitZone ==
    /\ pc = "call"
    /\ arg \in ZoneArgs
    /\ ret = Idle
    /\ body = BaseBody
    /\ req = None
    /\ sized = None
    /\ calls = <<>>
    /\ irr = None
    /\ yield = None
    /\ resp = NoResp

CallUtmCrsForLon ==
    /\ pc = "call"
    /\ arg.fn = "utm_crs_for_lon"
    /\ ret' = utm_crs_for_lon(arg.lon, arg.lat)
    /\ pc' = "returned"
    /\ UNCHANGED <<body, req, sized, calls, irr, yield, resp, arg>>

NextZone == CallUtmCrsForLon

SpecZone == InitZone /\ [][NextZone]_vars

(***************************************************************************)
(* The yield aggregation on its own: fetch_power_irradiance.annual and     *)
(* pvgis_energy applied to decoded provider payloads                       *)
(***************************************************************************)

\* a monthly daily-mean value: key absent, null, numbers, a string, an object
ClimValues == {Omitted, None, Num(0), Num(210), Num(500), Str("n/a"), Entry(Num(1))}

\* the params of a decoded NASA POWER payload
ClimParams ==
    {Dict("ALLSKY_SFC_SW_DWN" :> MonthlyMap(HeadFill(h, f, 12))) :
        h \in Heads(ClimValues), f \in {Omitted, Num(500)}}
    \cup {EmptyDict,
          Dict("ALLSKY_SFC_SW_DWN" :> None),
          Dict("ALLSKY_SFC_SW_DWN" :> Str("n/a"))}

\* a month's entry of outputs.monthly.fixed
PvEntries ==
    {Entry(Num(0)), Entry(Num(12345)), Entry(None), Entry(Omitted), Entry(Str("n/a")),
     Str("n/a"), None}

\* outputs.totals.fixed.E_y: absent, numbers, null, a string
PvAnnuals == {Omitted, Num(0), Num(99999), None, Str("n/a")}

PvFixed ==
    {KeyedFixed(HeadFill(h, f, 12)) :
        h \in Heads(PvEntries \cup {Omitted}), f \in {Entry(Num(1000)), Entry(None)}}
    \cup {List(HeadFill(h, Entry(Num(1000)), n)) :
        h \in Heads(PvEntries), n \in {0, 1, 11, 12, 13}}
    \cup {Omitted, None, Str("n/a"), EmptyDict}

\* decoded PVGIS payloads
PvPayloads ==
    {PvgisData(f, y) : f \in PvFixed, y \in PvAnnuals}
    \cup {EmptyDict,
          Dict("outputs" :> None),
          Dict("outputs" :> Str("n/a")),
          Dict("outputs" :> Dict("monthly" :> Str("n/a"))),
          Dict("outputs" :> Dict("monthly" :> List(<<>>)))}

YieldArgs ==
    {[fn |-> "annual", data |-> p] : p \in ClimParams}
    \cup {[fn |-> "pvgis_energy", data |-> d] : d \in PvPayloads}

InitYield ==
    /\ pc = "call"
    /\ arg \in YieldArgs
    /\ ret = Idle
    /\ body = BaseBody
    /\ req = None
    /\ sized = None
    /\ calls = <<>>
    /\ irr = None
    /\ yield = None
    /\ resp = NoResp

CallAnnual ==
    /\ pc = "call"
    /\ arg.fn = "annual"
    /\ ret' = annual(arg.data, "ALLSKY_SFC_SW_DWN")
    /\ pc' = "returned"
    /\ UNCHANGED <<body, req, sized, calls, irr, yield, resp, arg>>

CallPvgisEnergy ==
    /\ pc = "call"
    /\ arg.fn = "pvgis_energy"
    /\ ret' = pvgis_energy(arg.data)
    /\ pc' = "returned"
    /\ UNCHANGED <<body, req, sized, calls, irr, yield, resp, arg>>

NextYield == CallAnnual \/ CallPvgisEnergy

SpecYield == InitYield /\ [][NextYield]_vars

(***************************************************************************)
(* Claims about the handler (checked under Spec)                           *)
(***************************************************************************)

Sized == pc \in {"fetch_power_irradiance", "pvgis_energy", "respond", "done", "failed"}

Terminal == pc \in {"rejected", "failed", "done"}

PolygonSupplied == body.polygon.t = "polygon"

\* floor(area_m2 * packing_ratio / panel_area_m2) from the effective parameters
FitPanels == (body.polygon.v.area * sized.pack) \div (100 * sized.panel_area)

\* C1: with no user-supplied system_kw and a roof area present (also when
\* floor(area_m2 * packing_ratio / panel_area_m2) is 0), recommended_panels equals
\* max_panels and system_kw equals recommended_panels * panel_watts / 1000.
C1_RecommendedIsMaxPanels ==
    (Sized /\ req.system_kw.t = "None" /\ PolygonSupplied) =>
        /\ sized.rec_panels = FitPanels
        /\ sized.system_kw = sized.rec_panels * sized.panel_watts

\* C2: the max panel count surfaced in the response is present exactly when a roof
\* area is known (a polygon was supplied), where it equals
\* floor(area_m2 * packing_ratio / panel_area_m2) and is not negative; with no roof
\* area it is absent, not replaced by another figure.
C2_MaxPanelsPresentIffArea ==
    pc = "done" =>
        IF PolygonSupplied
        THEN /\ resp.solarPotential.maxArrayPanelsCount = Num(FitPanels)
             /\ FitPanels >= 0
        ELSE resp.solarPotential.maxArrayPanelsCount.t = "None"

OutOfRange ==
    /\ IsNumber(body.lat) /\ IsNumber(body.lon)
    /\ \/ body.lat.v < -90 \/ body.lat.v > 90
       \/ body.lon.v < -180 \/ body.lon.v > 180

\* C4: a request whose longitude is outside [-180, 180] or whose latitude is outside
\* [-90, 90] fails with a client-input error, and no call to either provider is made.
C4_InvalidCoordinateFailsFast ==
    OutOfRange =>
        /\ calls = <<>>
        /\ Terminal => (resp.kind = "error" /\ resp.status \in 400..499)

\* C5: the climatology call comes before the PV-performance call, each provider is
\* called at most once, and a non-success status from either aborts the request with
\* an upstream error: after a failed climatology call the PV-performance call is never
\* made, and no estimate payload is returned.
C5_UpstreamFailureAborts ==
    /\ Len(calls) <= 2
    /\ Len(calls) >= 1 => calls[1].request.provider = "NASA POWER"
    /\ Len(calls) = 2 => calls[2].request.provider = "PVGIS"
    /\ \A i \in 1..Len(calls) :
         calls[i].status_code # 200 =>
            /\ i = Len(calls)
            /\ pc = "failed"
            /\ resp.kind = "error" /\ resp.status = 502
            /\ yield = None

\* C5 witness: the climatology provider answered 500 and the request ended there
C5_Witness ==
    /\ pc = "failed"
    /\ Len(calls) = 1
    /\ calls[1].status_code = 500
    /\ resp = UpstreamError("NASA POWER", 500)

\* C8: for every 200 PV-performance payload, whichever shape it uses, the monthly_kwh
\* sequence produced by pvgis_energy and returned in the estimate has exactly 12
\* entries, each non-negative.
C8_TwelveMonths ==
    pc = "done" =>
        /\ Len(yield.v.monthly) = 12
        /\ Len(resp.solarPotential.monthlyKwh) = 12
        /\ \A i \in 1..Len(resp.solarPotential.monthlyKwh) :
             resp.solarPotential.monthlyKwh[i] >= 0

CallerLosses == body.losses_percent

\* C10: the loss percentage passed to the PV-performance provider equals the
\* losses_percent of the response assumptions, and both equal the caller's value
\* whenever the caller supplied one (0 included); 14 is used only when the caller
\* supplied none. Tilt and azimuth passed to the provider equal those reported.
C10_LossesAsSupplied ==
    pc = "done" =>
        LET sent     == calls[2].request
            reported == resp.solarPotential.assumptions
        IN  /\ sent.loss = reported.losses_percent
            /\ IsNumber(CallerLosses) => sent.loss = CallerLosses.v
            /\ ~IsNumber(CallerLosses) => sent.loss = 14
            /\ sent.angle = reported.tilt_deg
            /\ sent.aspect = 180 - reported.azimuth_deg

(***************************************************************************)
(* Claim about utm_crs_for_lon (checked under SpecZone)                    *)
(***************************************************************************)

\* C3: for every longitude in [-180, 180], endpoints included, and every latitude,
\* the zone index floor((lon + 180) / 6) + 1 is an integer in [1, 60] that depends on
\* the longitude alone, and the hemisphere flag is south iff lat < 0 and depends on
\* the latitude alone.
C3_ZoneInRange ==
    (pc = "returned" /\ arg.fn = "utm_crs_for_lon"
        /\ -180 <= arg.lon /\ arg.lon <= 180) =>
        /\ ret.zone = ((arg.lon + 180) \div 6) + 1
        /\ ret.zone \in 1..60
        /\ \A y \in {-90, 0, 90} : utm_crs_for_lon(arg.lon, y).zone = ret.zone
        /\ ret.south <=> arg.lat < 0
        /\ \A x \in {-180, 0, 180} : utm_crs_for_lon(x, arg.lat).south = ret.south

(***************************************************************************)
(* Claims about the yield aggregation (checked under SpecYield)            *)
(***************************************************************************)

\* x[k] when x is a dict holding k, else absent
SafeGet(x, k) == IF x.t = "dict" /\ k \in DOMAIN x.v THEN x.v[k] ELSE None

RECURSIVE SumOver(_, _)
SumOver(S, f) ==
    IF S = {} THEN 0
    ELSE LET x == CHOOSE x \in S : TRUE IN f[x] + SumOver(S \ {x}, f)

\* calendar day counts of a non-leap year, as the claim lists them
DayCount == <<31, 28, 31, 30, 31, 30, 31, 31, 30, 31, 30, 31>>

\* the monthly mapping handed to annual
ClimMonthly == SafeGet(arg.data, "ALLSKY_SFC_SW_DWN")

ClimValue(i) == SafeGet(ClimMonthly, MONTHS[i])

\* months that carry a value
PresentMonths == {i \in 1..12 : ClimValue(i).t # "None"}

\* a mapping of daily-mean values: every month is a number or absent
NumericMapping ==
    /\ ClimMonthly.t \in {"dict", "None"}
    /\ \A i \in PresentMonths : IsNumber(ClimValue(i))

\* C6: annualizeClimatology returns the sum over only the present months of
\* value * day-count, with no scaling up for missing months: absent when no month is
\* present, 31 * x when only JAN = x is present, 365 * v when all twelve equal v.
C6_AnnualSumsPresentMonths ==
    (pc = "returned" /\ arg.fn = "annual" /\ NumericMapping) =>
        /\ ret = IF PresentMonths = {} THEN None
                 ELSE Num(SumOver(PresentMonths,
                                  [i \in 1..12 |-> ClimValue(i).v * DayCount[i]]))
        /\ PresentMonths = {1} => ret = Num(31 * ClimValue(1).v)
        /\ (PresentMonths = 1..12 /\ \A i \in 1..12 : ClimValue(i) = ClimValue(1))
              => ret = Num(365 * ClimValue(1).v)

\* C6 witness: a partial year (JAN and FEB missing, the other ten at 5.00) summed
\* without scaling up: 5.00 * (365 - 31 - 28)
C6_Witness ==
    /\ pc = "returned" /\ arg.fn = "annual" /\ NumericMapping
    /\ PresentMonths = 3..12
    /\ ret = Num(500 * 306)

\* the authoritative annual figure of a PVGIS payload
AuthoritativeAnnual ==
    SafeGet(SafeGet(SafeGet(SafeGet(arg.data, "outputs"), "totals"), "fixed"), "E_y")

Sanitized(x) == IF IsNumber(x) THEN x ELSE Omitted

\* a monthly entry that is malformed, or whose E_m is, counts as an entry without E_m
SanitizedEntry(e) == Entry(Sanitized(SafeGet(e, "E_m")))

\* the climatology params with every non-numeric monthly value removed
SanitizedParams ==
    IF ClimMonthly.t = "dict"
    THEN Dict("ALLSKY_SFC_SW_DWN" :>
              MkDict([k \in DOMAIN ClimMonthly.v |-> Sanitized(ClimMonthly.v[k])]))
    ELSE EmptyDict

\* the PVGIS payload with every non-numeric monthly value, malformed monthly entry
\* and non-numeric annual total removed
SanitizedPayload ==
    LET fixed == SafeGet(SafeGet(SafeGet(arg.data, "outputs"), "monthly"), "fixed")
        E_d   == SafeGet(fixed, "E_d")
        clean == CASE fixed.t = "list" ->
                        List([i \in 1..Len(fixed.v) |-> SanitizedEntry(fixed.v[i])])
                   [] fixed.t = "dict" /\ E_d.t = "dict" ->
                        Dict("E_d" :> Dict([k \in DOMAIN E_d.v |-> SanitizedEntry(E_d.v[k])]))
                   [] OTHER -> fixed
    IN  IF SafeGet(SafeGet(arg.data, "outputs"), "monthly").t = "dict"
        THEN PvgisData(clean, Sanitized(AuthoritativeAnnual))
        ELSE arg.data

\* C9: a non-numeric or malformed field (a monthly value, a monthly entry, the annual
\* total) is treated by annualizeClimatology and reconcileMonthlyEnergy exactly as if
\* it were absent: the result is that of the same payload with the field removed, and
\* no type or parse error is raised.
C9_MalformedAsAbsent ==
    pc = "returned" =>
        /\ ret.t # "exc"
        /\ arg.fn = "annual" => ret = annual(SanitizedParams, "ALLSKY_SFC_SW_DWN")
        /\ arg.fn = "pvgis_energy" => ret = pvgis_energy(SanitizedPayload)

====
